---- MODULE Spec2Model ----
(***************************************************************************)
(* Model of the batch conversion pipeline of md_converter:                 *)
(*   converter/paths.py          slugify, get_output_filename              *)
(*   converter/batch_service.py  BatchResult, BatchService.convert_batch   *)
(* Python strings are sequences of one-character strings, so that the      *)
(* filename arithmetic of the code (slug, stem, suffix, counter) is        *)
(* computed and not assumed.  A path is a record [dir, name].              *)
(***************************************************************************)
EXTENDS Integers, Sequences, FiniteSets, TLC

\* ------------------------------------------------------------------------
\* Bounds of the model
\* ------------------------------------------------------------------------
\* Markdown files the enumeration finds
MaxDocs == 2
\* converter or directory failures the environment produces in one run
MaxFailures == 1

\* ------------------------------------------------------------------------
\* Characters and Python string primitives
\* ------------------------------------------------------------------------
Lowers == <<"a","b","c","d","e","f","g","h","i","j","k","l","m",
            "n","o","p","q","r","s","t","u","v","w","x","y","z">>
Uppers == <<"A","B","C","D","E","F","G","H","I","J","K","L","M",
            "N","O","P","Q","R","S","T","U","V","W","X","Y","Z">>
DigitChars == <<"0","1","2","3","4","5","6","7","8","9">>
Range(s) == {s[i] : i \in DOMAIN s}
Whitespace == {" ", "\t"}
DigitSet == Range(DigitChars)
UpperSet == Range(Uppers)
\* \w of the re module: alphanumeric characters and the underscore
WordSet == Range(Lowers) \cup Range(Uppers) \cup Range(DigitChars) \cup {"_"}
\* str.isdigit(), one character
IsDigit(c) == c \in DigitSet
IsWord(c) == c \in WordSet

\* str.lower(), one character
LowerChar(c) ==
    IF c \in UpperSet THEN Lowers[CHOOSE i \in DOMAIN Uppers : Uppers[i] = c] ELSE c
\* str.lower()
lower(text) == [i \in DOMAIN text |-> LowerChar(text[i])]

\* unicodedata.normalize("NFKD", c) of one character: a precomposed letter
\* becomes its base letter followed by a combining mark
NFKDChar(c) == IF c = "e-acute" THEN <<"e", "combining-acute">> ELSE <<c>>
RECURSIVE NFKD(_)
NFKD(text) == IF text = <<>> THEN <<>> ELSE NFKDChar(Head(text)) \o NFKD(Tail(text))

RECURSIVE lstrip(_, _)
\* str.lstrip(chars)
lstrip(text, chars) ==
    IF text # <<>> /\ Head(text) \in chars THEN lstrip(Tail(text), chars) ELSE text
RECURSIVE rstrip(_, _)
\* str.rstrip(chars)
rstrip(text, chars) ==
    IF text # <<>> /\ text[Len(text)] \in chars
    THEN rstrip(SubSeq(text, 1, Len(text) - 1), chars) ELSE text
\* str.strip(chars)
strip(text, chars) == rstrip(lstrip(text, chars), chars)

RECURSIVE ReplaceRuns(_, _, _)
\* re.sub(r"[class]+", rep, text): every maximal run of class characters
\* becomes one rep
ReplaceRuns(text, class, rep) ==
    IF text = <<>> THEN <<>>
    ELSE IF Head(text) \in class
         THEN rep \o ReplaceRuns(lstrip(Tail(text), class), class, rep)
         ELSE <<Head(text)>> \o ReplaceRuns(Tail(text), class, rep)

\* str.startswith / str.endswith
startswith(text, prefix) ==
    Len(prefix) <= Len(text) /\ SubSeq(text, 1, Len(prefix)) = prefix
endswith(text, suffix) ==
    Len(suffix) <= Len(text)
    /\ SubSeq(text, Len(text) - Len(suffix) + 1, Len(text)) = suffix

\* str.rfind(c), 1-based; 0 when c does not occur
RFind(text, c) ==
    IF \E i \in DOMAIN text : text[i] = c
    THEN CHOOSE i \in DOMAIN text :
            text[i] = c /\ \A j \in DOMAIN text : j > i => text[j] # c
    ELSE 0

RECURSIVE Decimal(_)
\* str(n) of a non-negative integer
Decimal(n) ==
    IF n < 10 THEN <<DigitChars[n + 1]>>
    ELSE Decimal(n \div 10) \o <<DigitChars[(n % 10) + 1]>>

\* ------------------------------------------------------------------------
\* pathlib: PurePath.suffix and PurePath.stem of a final path component
\* ------------------------------------------------------------------------
\* suffix: from the last dot, unless that dot is the first or the last
\* character of the name
PathSuffix(name) ==
    LET i == RFind(name, ".")
    IN  IF 1 < i /\ i < Len(name) THEN SubSeq(name, i, Len(name)) ELSE <<>>
PathStem(name) ==
    LET i == RFind(name, ".")
    IN  IF 1 < i /\ i < Len(name) THEN SubSeq(name, 1, i - 1) ELSE name

\* ------------------------------------------------------------------------
\* converter/paths.py
\* ------------------------------------------------------------------------
max_length == 100

slugify(text) ==
    IF text = <<>> THEN <<>>
    ELSE LET t1 == NFKD(text)
             t2 == lower(t1)
             t3 == ReplaceRuns(t2, Whitespace \cup {"_"}, <<"-">>)
             t4 == SelectSeq(t3, LAMBDA c : IsWord(c) \/ c = "-")
             t5 == ReplaceRuns(t4, {"-"}, <<"-">>)
             t6 == strip(t5, {"-"})
         IN  IF Len(t6) > max_length
             THEN rstrip(SubSeq(t6, 1, max_length), {"-"})
             ELSE t6

\* A naming pattern is a sequence of characters in which the element
\* "{title}" is the placeholder; NoPattern is the absent pattern.
NoPattern == <<>>
RECURSIVE FormatPattern(_, _)
\* output_naming_pattern.format(title=slug)
FormatPattern(pattern, slug) ==
    IF pattern = <<>> THEN <<>>
    ELSE (IF Head(pattern) = "{title}" THEN slug ELSE <<Head(pattern)>>)
         \o FormatPattern(Tail(pattern), slug)

\* variant: the name the pattern gives is returned as it is
get_output_filename_PatternAsIs(input_stem, title, output_naming_pattern, output_format) ==
    LET extension == IF startswith(output_format, <<".">>)
                     THEN output_format ELSE <<".">> \o output_format
    IN  IF output_naming_pattern # NoPattern /\ title # <<>>
        THEN FormatPattern(output_naming_pattern, slugify(title))
        ELSE IF title # <<>>
             THEN slugify(title) \o extension
             ELSE input_stem \o extension

get_output_filename(input_stem, title, output_naming_pattern, output_format) ==
    LET extension == IF startswith(output_format, <<".">>)
                     THEN output_format ELSE <<".">> \o output_format
    IN  IF output_naming_pattern # NoPattern /\ title # <<>>
        THEN LET filename == FormatPattern(output_naming_pattern, slugify(title))
                 dot == RFind(filename, ".")
                 base == IF dot > 0 THEN SubSeq(filename, 1, dot - 1) ELSE filename
             IN  IF endswith(filename, extension) THEN filename
                 ELSE base \o extension
        ELSE IF title # <<>>
             THEN slugify(title) \o extension
             ELSE input_stem \o extension

\* ------------------------------------------------------------------------
\* The environment of one batch run
\* ------------------------------------------------------------------------
DOCX == <<"d","o","c","x">>
\* The formats a caller passes, in the caller's spelling.  A format list is
\* empty or duplicate-free: the one caller, cli.py, builds it with
\* parse_formats, which drops repeated formats.
FormatArgs == {DOCX, <<"P","D","F">>}

TopDir == "."
SubDir == "sub"
\* The Markdown files an input tree may hold: directory relative to
\* input_dir, file stem, and the title of the front matter (<<>>: none)
Catalogue ==
    { [dir |-> TopDir, stem |-> <<"f","1">>,             title |-> <<"A"," ","B">>],
      [dir |-> TopDir, stem |-> <<"a","-","b">>,         title |-> <<>>],
      [dir |-> TopDir, stem |-> <<"a","-","b","_","2">>, title |-> <<>>],
      [dir |-> TopDir, stem |-> <<"f","2">>,             title |-> <<"!">>],
      [dir |-> TopDir, stem |-> <<"f","3">>,             title |-> <<"!">>],
      [dir |-> SubDir, stem |-> <<"f","1">>,             title |-> <<"A","_","B">>] }

\* Output files that may exist before the batch starts
PreExisting ==
    { [dir |-> TopDir, name |-> <<"a","-","b",".","d","o","c","x">>],
      [dir |-> TopDir, name |-> <<"a","-","b","_","2",".","d","o","c","x">>] }

SeqsUpTo(S, n) == UNION { [1..k -> S] : k \in 0..n }
Injective(s) == \A i, j \in DOMAIN s : i # j => s[i] # s[j]

\* What the directory checks of convert_batch find
DirStates == {"ok", "input_missing", "input_not_dir", "output_not_dir", "output_mkdir_error"}
\* How a converter call that raises ends: "convert_error" leaves no output
\* file (the renderer exits non-zero); "empty_output" leaves an empty file
\* (the renderer reports success without content)
ConvertFailures == {"convert_error", "empty_output"}

VARIABLES
    md_files,           \* input_dir.glob(pattern), in enumeration order
    formats_arg,        \* the formats argument
    recursive,          \* the recursive argument
    overwrite,          \* the overwrite argument
    disk,               \* the output files that exist
    disk0,              \* disk when the batch started
    pc,                 \* "start", "doc", "fmt", "done" (returned), "raised"
    raised,             \* the exception that left convert_batch, or "none"
    formats,            \* the normalised format list
    d,                  \* index of the current document
    f,                  \* index of the current format
    title,              \* title of the current document
    used_output_files,  \* paths claimed in this batch run
    result,             \* the BatchResult
    log,                \* history: one entry per handled item, in order
    parse_calls         \* history: the file of every parse_frontmatter call

batch_vars == <<md_files, formats_arg, recursive, overwrite, disk, disk0, pc, raised,
                formats, d, f, title, used_output_files, result, log, parse_calls>>

\* The state of the diagram embedder (mermaid_processor.py)
VARIABLES
    mmdc_path,          \* what find_mermaid_cli finds: "mmdc" or "None"
    assets,             \* the files that exist in base_dir/_assets/diagrams
    assets_dir,         \* whether base_dir/_assets/diagrams exists
    embed,              \* the last call of process_mermaid_in_markdown
    rendered            \* history: the diagram sources rendered with success

mermaid_vars == <<mmdc_path, assets, assets_dir, embed, rendered>>

\* The state of the conversions of one document (converter_service.py,
\* pandoc_wrapper.py)
VARIABLES
    document,           \* the body of the input document
    requested,          \* the formats the document is to be converted to
    profile,            \* the profile that profile_name selects
    conversions         \* history: one entry per ConverterService.convert call

convert_vars == <<document, requested, profile, conversions>>

\* The state of one call of parse_frontmatter (frontmatter.py)
VARIABLES
    file_text,          \* the characters of the file, as stored
    today,              \* datetime.now() as strftime gives it with %Y-%m-%d
    frontmatter         \* the call of parse_frontmatter and what it gave

frontmatter_vars == <<file_text, today, frontmatter>>

\* The calls of get_output_filename (paths.py) and one call of
\* PandocWrapper.convert with the PDF engines of the machine
VARIABLES
    namings,            \* history: the calls of get_output_filename
    engines,            \* the PDF engines that shutil.which finds
    pdf_call            \* the call of PandocWrapper.convert and what it did

naming_vars == <<namings>>
engine_vars == <<engines, pdf_call>>

vars == <<batch_vars, mermaid_vars, convert_vars, frontmatter_vars, naming_vars, engine_vars>>

\* Outside a diagram-embedder run and outside a single-document run
NoCall == [called |-> FALSE]
MermaidIdle ==
    /\ mmdc_path = "None"
    /\ assets = {}
    /\ assets_dir = FALSE
    /\ embed = NoCall
    /\ rendered = {}
\* profile_name is None, or names no profile (converter_service.py 135-140)
NoProfile == [selected |-> FALSE, default_formats |-> <<>>]
ConvertIdle ==
    /\ document = <<>>
    /\ requested = <<>>
    /\ profile = NoProfile
    /\ conversions = <<>>
FrontmatterIdle ==
    /\ file_text = <<>>
    /\ today = <<>>
    /\ frontmatter = NoCall
NamingIdle == namings = <<>>
EngineIdle ==
    /\ engines = {}
    /\ pdf_call = NoCall

\* BatchResult.__init__
BatchResult == [successful |-> 0, skipped |-> 0, failed |-> 0, errors |-> <<>>]

Init ==
    /\ recursive \in BOOLEAN
    /\ overwrite \in BOOLEAN
    /\ md_files \in { s \in SeqsUpTo(Catalogue, MaxDocs) :
                        /\ Injective(s)
                        /\ \A i \in DOMAIN s : recursive \/ s[i].dir = TopDir }
    /\ formats_arg \in { s \in SeqsUpTo(FormatArgs, Cardinality(FormatArgs)) :
                          Injective(s) }
    /\ disk0 \in SUBSET PreExisting
    /\ disk = disk0
    /\ pc = "start"
    /\ raised = "none"
    /\ formats = <<>>
    /\ d = 0
    /\ f = 0
    /\ title = <<>>
    /\ used_output_files = {}
    /\ result = BatchResult
    /\ log = <<>>
    /\ parse_calls = <<>>
    /\ MermaidIdle
    /\ ConvertIdle
    /\ FrontmatterIdle
    /\ NamingIdle
    /\ EngineIdle

\* ------------------------------------------------------------------------
\* converter/batch_service.py: convert_batch
\* ------------------------------------------------------------------------
\* lines 99-103: default and lower-casing of the format list
NormaliseFormats(fs) == IF Len(fs) = 0 THEN <<DOCX>> ELSE [i \in DOMAIN fs |-> lower(fs[i])]

\* lines 72-109: directory checks, enumeration, format list, empty claim set
Start ==
    /\ pc = "start"
    /\ \E dirs \in DirStates :
         IF dirs # "ok"
         THEN /\ pc' = "raised"
              /\ raised' = "ConversionError"
              /\ UNCHANGED <<formats, d, used_output_files>>
         ELSE IF Len(md_files) = 0
         THEN /\ pc' = "done"
              /\ UNCHANGED <<raised, formats, d, used_output_files>>
         ELSE /\ pc' = "doc"
              /\ formats' = NormaliseFormats(formats_arg)
              /\ used_output_files' = {}
              /\ d' = 1
              /\ UNCHANGED raised
    /\ UNCHANGED <<mermaid_vars, convert_vars, frontmatter_vars, naming_vars, engine_vars,
                   md_files, formats_arg, recursive,
                   overwrite, disk, disk0, f, title, result, log, parse_calls>>

\* frontmatter.py parse_frontmatter as convert_batch uses it: reading the
\* file raises FrontmatterError, or the title of the front matter is returned
parse_frontmatter(md_file, readable) ==
    IF readable THEN [raises |-> FALSE, title |-> md_file.title]
    ELSE [raises |-> TRUE, title |-> <<>>]

\* lines 111-121: next document; its front matter is read outside the try
NextDocument ==
    /\ pc = "doc"
    /\ d <= Len(md_files)
    /\ \E readable \in BOOLEAN :
         LET fm == parse_frontmatter(md_files[d], readable)
         IN  IF fm.raises
             THEN /\ pc' = "raised"
                  /\ raised' = "FrontmatterError"
                  /\ UNCHANGED <<title, f>>
             ELSE /\ pc' = "fmt"
                  /\ title' = fm.title
                  /\ f' = 1
                  /\ UNCHANGED raised
    /\ parse_calls' = Append(parse_calls, md_files[d])
    /\ UNCHANGED <<mermaid_vars, convert_vars, frontmatter_vars, naming_vars, engine_vars,
                   md_files, formats_arg, recursive,
                   overwrite, disk, disk0, formats, d, used_output_files, result, log>>

\* lines 113-117
output_subdir(md_file) == IF recursive THEN md_file.dir ELSE TopDir

\* lines 127-130
base_output_file(md_file, doc_title, output_format) ==
    [dir |-> output_subdir(md_file),
     name |-> get_output_filename(md_file.stem, doc_title, NoPattern, output_format)]

\* variant: the negation of overwrite dropped
SkipExisting_OverwriteInverted(file) ==
    file \in disk /\ overwrite /\ file \notin used_output_files
\* variant: the claimed-set test inverted
SkipExisting_ClaimedOnly(file) ==
    file \in disk /\ ~overwrite /\ file \in used_output_files

\* lines 133-137 and 169: the output exists, may not be overwritten and was
\* not written by this run
SkipExisting(file) ==
    file \in disk /\ ~overwrite /\ file \notin used_output_files

\* lines 149-152: the stem without one trailing "_<digits>" group
StripCounter(base_stem) ==
    LET i == RFind(base_stem, "_")
        last == SubSeq(base_stem, i + 1, Len(base_stem))
    IN  IF i > 0 /\ last # <<>> /\ \A k \in DOMAIN last : IsDigit(last[k])
        THEN SubSeq(base_stem, 1, i - 1)
        ELSE base_stem

\* line 156
Candidate(base, base_stem, counter) ==
    [dir |-> base.dir,
     name |-> base_stem \o <<"_">> \o Decimal(counter) \o PathSuffix(base.name)]

\* lines 157-159
CandidateFree(candidate) ==
    candidate \notin used_output_files /\ (overwrite \/ candidate \notin disk)

RECURSIVE Probe(_, _, _)
\* lines 154-162
Probe(base, base_stem, counter) ==
    IF CandidateFree(Candidate(base, base_stem, counter))
    THEN Candidate(base, base_stem, counter)
    ELSE Probe(base, base_stem, counter + 1)

\* variant: no collision handling, the candidate is used as is
ResolveCollision_Off(base) == base
\* variant: the counter starts one too high
ResolveCollision_FromThree(base) ==
    IF base \in used_output_files
    THEN Probe(base, StripCounter(PathStem(base.name)), 3)
    ELSE base

\* lines 146-162
ResolveCollision(base) ==
    IF base \in used_output_files
    THEN Probe(base, StripCounter(PathStem(base.name)), 2)
    ELSE base

\* the item the loop is at
CurDoc == md_files[d]
CurFormat == formats[f]
CurBase == base_output_file(CurDoc, title, CurFormat)

\* lines 133-137 and 169: the two existence checks of an item
ShouldSkip(base, output_file) == SkipExisting(base) \/ SkipExisting(output_file)

\* variant: the loops nested the other way, documents inside formats
Advance_DocumentsInsideFormats ==
    IF d < Len(md_files)
    THEN /\ d' = d + 1
         /\ UNCHANGED <<pc, f>>
    ELSE IF f < Len(formats)
         THEN /\ d' = 1
              /\ f' = f + 1
              /\ UNCHANGED pc
         ELSE /\ pc' = "doc"
              /\ d' = d + 1
              /\ UNCHANGED f

\* lines 111, 124: the loop header; formats inside documents
Advance ==
    IF f < Len(formats)
    THEN /\ f' = f + 1
         /\ UNCHANGED <<pc, d>>
    ELSE /\ pc' = "doc"
         /\ d' = d + 1
         /\ UNCHANGED f

\* history entry of the item the loop is at: its candidate path (base), the
\* path chosen for it, how it ended, whether the converter was called
Entry(base, path, status, invoked, error) ==
    [d |-> d, f |-> f, format |-> CurFormat, base |-> base, path |-> path,
     status |-> status, invoked |-> invoked, error |-> error]

\* lines 133-143 and 169-175
ItemSkipped ==
    /\ pc = "fmt"
    /\ LET base == CurBase
           output_file == ResolveCollision(base)
       IN  /\ ShouldSkip(base, output_file)
           /\ log' = Append(log, Entry(base, base, "skipped", FALSE, "none"))
    /\ result' = [result EXCEPT !.skipped = @ + 1]
    /\ Advance
    /\ UNCHANGED <<mermaid_vars, convert_vars, frontmatter_vars, naming_vars, engine_vars,
                   md_files, formats_arg, recursive,
                   overwrite, disk, disk0, raised, formats, title,
                   used_output_files, parse_calls>>

\* converter_service.py line 81: every ConverterService.convert call of the
\* batch parses the front matter of its input file
ConverterParses(md_file) == Append(parse_calls, md_file)

\* lines 177-198: the directory is made and the converter returns
ItemConverted ==
    /\ pc = "fmt"
    /\ LET base == CurBase
           output_file == ResolveCollision(base)
       IN  /\ ~ShouldSkip(base, output_file)
           /\ disk' = disk \cup {output_file}
           /\ used_output_files' = used_output_files \cup {output_file}
           /\ log' = Append(log, Entry(base, output_file, "converted", TRUE, "none"))
    /\ result' = [result EXCEPT !.successful = @ + 1]
    /\ parse_calls' = ConverterParses(CurDoc)
    /\ Advance
    /\ UNCHANGED <<mermaid_vars, convert_vars, frontmatter_vars, naming_vars, engine_vars,
                   md_files, formats_arg, recursive,
                   overwrite, disk0, raised, formats, title>>

\* variant: the error is recorded but failed is not incremented
RecordFailure_NoCount(error) ==
    [result EXCEPT !.errors = Append(@, [file |-> CurDoc, format |-> CurFormat,
                                         msg |-> error])]

\* lines 200-206: the except clause
RecordFailure(error) ==
    [result EXCEPT !.failed = @ + 1,
                   !.errors = Append(@, [file |-> CurDoc, format |-> CurFormat,
                                         msg |-> error])]

\* lines 177-183 and 189-196 followed by 200-206: making the subdirectory
\* fails, or the converter raises
ItemFailed ==
    /\ pc = "fmt"
    /\ result.failed < MaxFailures
    /\ LET base == CurBase
           output_file == ResolveCollision(base)
       IN  /\ ~ShouldSkip(base, output_file)
           /\ \/ /\ output_subdir(CurDoc) # TopDir
                 /\ result' = RecordFailure("mkdir_error")
                 /\ log' = Append(log, Entry(base, output_file, "failed", FALSE,
                                             "mkdir_error"))
                 /\ UNCHANGED <<disk, parse_calls>>
              \/ \E failure \in ConvertFailures :
                 /\ result' = RecordFailure(failure)
                 /\ parse_calls' = ConverterParses(CurDoc)
                 /\ log' = Append(log, Entry(base, output_file, "failed", TRUE,
                                             failure))
                 /\ disk' = IF failure = "empty_output"
                            THEN disk \cup {output_file} ELSE disk
    /\ Advance
    /\ UNCHANGED <<mermaid_vars, convert_vars, frontmatter_vars, naming_vars, engine_vars,
                   md_files, formats_arg, recursive,
                   overwrite, disk0, raised, formats, title, used_output_files>>

\* lines 208-209
Return ==
    /\ pc = "doc"
    /\ d > Len(md_files)
    /\ pc' = "done"
    /\ UNCHANGED <<mermaid_vars, convert_vars, frontmatter_vars, naming_vars, engine_vars,
                   md_files, formats_arg, recursive,
                   overwrite, disk, disk0, raised, formats, d, f, title,
                   used_output_files, result, log, parse_calls>>

Next ==
    \/ Start
    \/ NextDocument
    \/ ItemSkipped
    \/ ItemConverted
    \/ ItemFailed
    \/ Return

Spec == Init /\ [][Next]_vars

\* ------------------------------------------------------------------------
\* Vocabulary of the properties
\* ------------------------------------------------------------------------
Terminated == pc \in {"done", "raised"}
\* the directories were validated and the walk over the documents began
Validated == d >= 1
WithStatus(status) == { i \in DOMAIN log : log[i].status = status }
\* item (d1, f1) comes before item (d2, f2) in the batch
Before(d1, f1, d2, f2) == d1 < d2 \/ (d1 = d2 /\ f1 < f2)
Attempted(dd, ff) == \E i \in DOMAIN log : log[i].d = dd /\ log[i].f = ff
LastEntry(l) == l[Len(l)]
IsFailed(e) == e.status = "failed"
\* the error records the failed items of the log account for
ErrorsOfLog ==
    LET failed == SelectSeq(log, IsFailed)
    IN  [i \in DOMAIN failed |->
           [file |-> md_files[failed[i].d], format |-> failed[i].format,
            msg |-> failed[i].error]]
\* the counters and the error list are those of the handled items
TallyMatchesLog ==
    /\ result.successful = Cardinality(WithStatus("converted"))
    /\ result.skipped = Cardinality(WithStatus("skipped"))
    /\ result.failed = Cardinality(WithStatus("failed"))
    /\ result.errors = ErrorsOfLog
\* a step that handles one item
ItemStep == pc = "fmt" /\ log' # log

\* C1 (as claimed): when the conversion of an item raises, the exception is
\* caught, failed grows by one with one error record for that document and
\* format, successful and skipped keep their values, and every item after
\* it is still attempted before convert_batch ends.
C1_FailureNeverAbortsBatch ==
    /\ TallyMatchesLog
    /\ Terminated =>
         \A i \in DOMAIN log :
           (log[i].status = "failed" /\ log[i].invoked) =>
             \A dd \in DOMAIN md_files, ff \in DOMAIN formats :
               Before(log[i].d, log[i].f, dd, ff) => Attempted(dd, ff)

\* C2 (as claimed): once the directories are validated no error of a
\* per-document step leaves convert_batch: it ends by returning, with every
\* item attempted.
C2_BatchAlwaysCompletes ==
    Validated =>
      /\ pc # "raised"
      /\ Terminated =>
           \A dd \in DOMAIN md_files, ff \in DOMAIN formats : Attempted(dd, ff)

\* C3: with overwrite=false the converter is never called with an output
\* path that existed before the batch started, and no such file disappears.
C3_PreExistingNeverWritten ==
    ~overwrite =>
      /\ \A i \in DOMAIN log : log[i].invoked => log[i].path \notin disk0
      /\ disk0 \subseteq disk
\* a run without overwrite converted an item whose collision was resolved
\* past a numbered file that existed before the batch
C3_Witness ==
    /\ ~overwrite
    /\ \E i \in DOMAIN log :
         /\ log[i].status = "converted"
         /\ log[i].path # log[i].base
         /\ \E p \in disk0 :
              /\ p.dir = log[i].path.dir
              /\ p # log[i].base
              /\ p # log[i].path
              /\ StripCounter(PathStem(p.name)) = StripCounter(PathStem(log[i].base.name))

\* C4: the output paths of the successfully converted items of one run are
\* pairwise distinct, for either value of overwrite.
C4_ConvertedPathsDistinct ==
    \A i, j \in WithStatus("converted") : i # j => log[i].path # log[j].path
\* two items with the same candidate path were both converted, and one
\* document was converted to two formats
C4_Witness ==
    /\ \E i, j \in WithStatus("converted") : i # j /\ log[i].base = log[j].base
    /\ \E i, j \in WithStatus("converted") :
         log[i].d = log[j].d /\ log[i].format # log[j].format

\* C5 (as claimed): the claimed set starts empty and a path is claimed when
\* it is chosen: once the converter was called with path p for an item, no
\* later item is given p, whether or not that conversion succeeded.
C5_ChosenPathNeverReused ==
    /\ pc = "start" => used_output_files = {}
    /\ \A i, j \in DOMAIN log :
         (i < j /\ log[i].invoked /\ log[j].status # "skipped")
           => log[i].path # log[j].path

\* The names the specification gives to a collision: stem.ext is the
\* candidate filename, ext the "." and the format, stem_k.ext the k-th name
SpecStem(name, format) == SubSeq(name, 1, Len(name) - Len(format) - 1)
NumberedName(stem, k, format) == stem \o <<"_">> \o Decimal(k) \o <<".">> \o format
\* name is of the form stem_k.ext for some number k
IsNumberedForm(name, stem, format) ==
    LET lead == stem \o <<"_">>
        ext == <<".">> \o format
        digits == SubSeq(name, Len(lead) + 1, Len(name) - Len(ext))
    IN  /\ startswith(name, lead)
        /\ endswith(name, ext)
        /\ Len(name) > Len(lead) + Len(ext)
        /\ \A k \in DOMAIN digits : IsDigit(digits[k])
\* two candidate filenames of one format of which one is a numbered form of
\* the other
Interfere(name1, name2, format) ==
    \/ IsNumberedForm(name2, SpecStem(name1, format), format)
    \/ IsNumberedForm(name1, SpecStem(name2, format), format)

\* C6 (as claimed): with overwrite=true, all conversions succeeding and no
\* other document yielding a numbered form of the name, the i-th of the
\* documents that yield the same candidate stem.ext is written to stem.ext
\* for i = 1 and to stem_i.ext for i >= 2.
C6_SameNameNumberedInOrder ==
    ( /\ pc = "done"
      /\ overwrite
      /\ \A i \in DOMAIN log : log[i].status = "converted" )
    => \A i \in DOMAIN log :
         LET e == log[i]
             rank == Cardinality({ j \in 1..i : log[j].base = e.base })
             undisturbed ==
                \A j \in DOMAIN log :
                   (log[j].base.dir = e.base.dir /\ log[j].format = e.format)
                     => ~Interfere(e.base.name, log[j].base.name, e.format)
         IN  undisturbed =>
               e.path = [dir |-> e.base.dir,
                         name |-> IF rank = 1 THEN e.base.name
                                  ELSE NumberedName(SpecStem(e.base.name, e.format),
                                                    rank, e.format)]

\* C7: with overwrite=false an item whose candidate path exists on disk and
\* is not claimed in this run is skipped: skipped grows by one, successful,
\* failed and the error list keep their values, the converter is not called.
C7_Step ==
    (ItemStep /\ ~overwrite /\ LET base == CurBase
                               IN  base \in disk /\ base \notin used_output_files)
    => /\ result' = [result EXCEPT !.skipped = @ + 1]
       /\ Len(log') = Len(log) + 1
       /\ LastEntry(log').status = "skipped"
       /\ ~LastEntry(log').invoked
       /\ disk' = disk
       /\ used_output_files' = used_output_files
\* C7: every step of the batch satisfies C7_Step
C7_ExistingUnclaimedSkipped == [][C7_Step]_vars
\* an item was skipped for a file that existed before the batch, and another
\* for a file that a failed conversion of this run left behind
C7_Witness ==
    /\ ~overwrite
    /\ \E i \in WithStatus("skipped") : log[i].base \in disk0
    /\ \E i \in WithStatus("skipped") : log[i].base \notin disk0

\* the probe sequence of a candidate path: counter 2, 3, ...
ProbeBound == Cardinality(used_output_files \cup disk) + 2
Probed(base, k) == Candidate(base, StripCounter(PathStem(base.name)), k)
\* p is the first probed path that passes free
IsFirstProbed(p, base, free(_)) ==
    \E k \in 2..ProbeBound :
       /\ p = Probed(base, k)
       /\ free(p)
       /\ \A j \in 2..(k - 1) : ~free(Probed(base, j))
NeitherClaimedNorOnDisk(c) == c \notin used_output_files /\ c \notin disk
NotClaimedAndWritable(c) == c \notin used_output_files /\ (overwrite \/ c \notin disk)

\* C8 (as claimed): a candidate that exists on disk while overwrite is false
\* is a collision like a claimed candidate: the item is not skipped, it is
\* given the first probed path that is neither claimed nor on disk.
C8_ExistingIsCollision ==
    [][ ItemStep =>
          LET base == CurBase
          IN  (base \in disk /\ ~overwrite) =>
                /\ LastEntry(log').status # "skipped"
                /\ IsFirstProbed(LastEntry(log').path, base, NeitherClaimedNorOnDisk) ]_vars

\* C8 (amended): only a candidate claimed in this run is a collision; it is
\* given the first probed path that is not claimed and, unless overwrite,
\* not on disk.  An unclaimed candidate on disk with overwrite=false is not
\* probed, the item is skipped; any other unclaimed candidate is used as is.
C8_Step ==
    ItemStep =>
      LET e == LastEntry(log')
          base == CurBase
      IN  /\ base \in used_output_files =>
                /\ e.status # "skipped"
                /\ e.path # base
                /\ IsFirstProbed(e.path, base, NotClaimedAndWritable)
          /\ (base \notin used_output_files /\ base \in disk /\ ~overwrite) =>
                /\ e.status = "skipped"
                /\ ~e.invoked
          /\ (base \notin used_output_files /\ (base \notin disk \/ overwrite)) =>
                /\ e.status # "skipped"
                /\ e.path = base
\* C8 (amended): every step of the batch satisfies C8_Step
C8_OnlyClaimedIsCollision == [][C8_Step]_vars
\* one run without overwrite skipped an item for an existing file, resolved
\* a collision of a claimed candidate, and probed past a file on disk
C8_Witness ==
    /\ ~overwrite
    /\ WithStatus("skipped") # {}
    /\ \E i \in WithStatus("converted") :
         /\ log[i].path # log[i].base
         /\ log[i].path # Probed(log[i].base, 2)

\* the name the collision rule gives for counter k: the stem of the
\* candidate without one trailing "_<digits>", "_k", a dot and the format
Renamed(base, format, k) ==
    [dir |-> base.dir,
     name |-> StripCounter(PathStem(base.name)) \o <<"_">> \o Decimal(k)
              \o <<".">> \o format]

C29_Step ==
    ItemStep =>
      LET e == LastEntry(log')
          base == CurBase
      IN  /\ base \in used_output_files =>
                \E k \in 2..ProbeBound :
                   /\ e.path = Renamed(base, CurFormat, k)
                   /\ NotClaimedAndWritable(e.path)
                   /\ \A j \in 2..(k - 1) :
                         ~NotClaimedAndWritable(Renamed(base, CurFormat, j))
          /\ e.status # "skipped" =>
                endswith(e.path.name, <<".">> \o CurFormat)
\* C29: a colliding candidate is replaced by the path in the same directory
\* named stem_k.format, k the least number from 2 on that is neither claimed
\* nor (unless overwrite) on disk; so the path of every item that is not
\* skipped ends with a dot and its format, also when the title slugifies to
\* the empty string.
C29_ResolvedPathKeepsFormat == [][C29_Step]_vars

\* the number of requested formats (the default is one format)
RequestedFormats == IF Len(formats_arg) = 0 THEN 1 ELSE Len(formats_arg)

\* C9: every item is handled at most once and ends in exactly one of
\* skipped, converted, failed, which never changes afterwards; the converter
\* is called at most once per item; when convert_batch returns, successful +
\* skipped + failed is documents times formats, all zero without documents.
C9_Inv ==
    /\ TallyMatchesLog
    /\ \A i, j \in DOMAIN log :
         i # j => <<log[i].d, log[i].f>> # <<log[j].d, log[j].f>>
    /\ \A i \in DOMAIN log :
         /\ log[i].status \in {"skipped", "converted", "failed"}
         /\ log[i].status = "converted" => log[i].invoked
         /\ log[i].status = "skipped" => ~log[i].invoked
    /\ pc = "done" =>
         /\ result.successful + result.skipped + result.failed
              = Len(md_files) * RequestedFormats
         /\ \A dd \in DOMAIN md_files, ff \in DOMAIN formats : Attempted(dd, ff)
         /\ md_files = <<>> => result = BatchResult
C9_Step ==
    \/ log' = log
    \/ Len(log') = Len(log) + 1 /\ SubSeq(log', 1, Len(log)) = log
\* C9: C9_Inv holds in every state and the history of handled items only grows
C9_ItemsTerminalInOneStep == []C9_Inv /\ [][C9_Step]_vars
\* a batch returned after skipping, converting and failing items
C9_Witness ==
    /\ pc = "done"
    /\ WithStatus("skipped") # {}
    /\ WithStatus("converted") # {}
    /\ WithStatus("failed") # {}

\* C10: the items are handled one after another, all formats of a document
\* in the caller's order before any format of the next document, each item
\* once: the i-th handled item is the i-th item of that order.
C10_ItemsInOrder ==
    /\ \A i \in DOMAIN log :
         /\ log[i].d = ((i - 1) \div RequestedFormats) + 1
         /\ log[i].f = ((i - 1) % RequestedFormats) + 1
         /\ log[i].format = IF Len(formats_arg) = 0 THEN DOCX
                            ELSE lower(formats_arg[log[i].f])
    /\ pc = "fmt" => Len(log) = (d - 1) * RequestedFormats + (f - 1)
\* a batch of two documents and two formats returned
C10_Witness ==
    /\ pc = "done"
    /\ Len(md_files) >= 2
    /\ Len(formats_arg) >= 2
    /\ Len(log) = Len(md_files) * Len(formats_arg)

\* ------------------------------------------------------------------------
\* C11: in a batch run the front matter of a document is parsed exactly once,
\* whatever the number of requested formats: the conversions of the document
\* do not parse it again
\* ------------------------------------------------------------------------
ParsesOf(md_file) == Cardinality({ i \in DOMAIN parse_calls : parse_calls[i] = md_file })
C11_ParsedOncePerDocument ==
    \A i \in DOMAIN md_files :
        /\ ParsesOf(md_files[i]) <= 1
        /\ (i < d \/ (i = d /\ pc = "fmt")) => ParsesOf(md_files[i]) = 1

\* ------------------------------------------------------------------------
\* converter/mermaid_processor.py: finding the diagram blocks
\* ------------------------------------------------------------------------
\* the whitespace class of the pattern and the characters str.strip() removes
RegexSpace == Whitespace \cup {"\n"}
\* the backquote character
Backquote == "backquote"
Fence == <<Backquote, Backquote, Backquote>>
\* MERMAID_PATTERN, lines 21-24: the opening fence (three backquotes and the
\* word mermaid), any whitespace, a newline, the lazy group of any characters
\* (DOTALL), a newline and the closing fence.  IGNORECASE: BlockOpen is
\* matched without regard to case.
BlockOpen == Fence \o <<"m","e","r","m","a","i","d">>
BlockClose == <<"\n">> \o Fence

\* pat occurs in text at index i (pat is not empty)
HasAt(text, i, pat) ==
    /\ i >= 1
    /\ i + Len(pat) - 1 <= Len(text)
    /\ text[i] = pat[1]
    /\ SubSeq(text, i, i + Len(pat) - 1) = pat
\* the same without regard to case, for a pattern in lower case
HasAtIgnoreCase(text, i, pat) ==
    /\ i >= 1
    /\ i + Len(pat) - 1 <= Len(text)
    /\ LowerChar(text[i]) = pat[1]
    /\ lower(SubSeq(text, i, i + Len(pat) - 1)) = pat

SetMax(S) == CHOOSE x \in S : \A y \in S : y <= x
SetMin(S) == CHOOSE x \in S : \A y \in S : x <= y

\* the last index of the run of whitespace that starts at j (j - 1: none)
RECURSIVE SpaceRunEnd(_, _)
SpaceRunEnd(text, j) ==
    IF j <= Len(text) /\ text[j] \in RegexSpace
    THEN SpaceRunEnd(text, j + 1)
    ELSE j - 1

NoMatch == [found |-> FALSE]
\* the match of MERMAID_PATTERN that starts at index i: whitespace is matched
\* greedily, so the
\* newline that ends the opening line is the last one of the whitespace run
\* after which the rest can still match; the group is lazy, so the block
\* ends at the first closing fence after that newline
MatchAt(text, i) ==
    IF ~HasAtIgnoreCase(text, i, BlockOpen) THEN NoMatch
    ELSE LET j == i + Len(BlockOpen)
             closes(p) == { q \in (p + 1)..Len(text) : HasAt(text, q, BlockClose) }
             newlines == { p \in j..SpaceRunEnd(text, j) :
                             text[p] = "\n" /\ closes(p) # {} }
         IN  IF newlines = {} THEN NoMatch
             ELSE LET p == SetMax(newlines)
                      q == SetMin(closes(p))
                  IN  [found |-> TRUE, start |-> i, end |-> q + Len(BlockClose) - 1,
                       group0 |-> SubSeq(text, i, q + Len(BlockClose) - 1),
                       group1 |-> SubSeq(text, p + 1, q - 1)]

\* MERMAID_PATTERN.finditer: the non-overlapping matches from left to right
RECURSIVE finditer(_, _)
finditer(text, pos) ==
    IF pos > Len(text) THEN <<>>
    ELSE LET m == MatchAt(text, pos)
         IN  IF m.found THEN <<m>> \o finditer(text, m.end + 1)
             ELSE finditer(text, pos + 1)

\* lines 59-69
has_mermaid_diagrams(content) == finditer(content, 1) # <<>>

\* lines 72-87: (full_match, diagram_code) of every block
extract_mermaid_blocks(content) ==
    LET ms == finditer(content, 1)
    IN  [k \in DOMAIN ms |-> [full_match |-> ms[k].group0,
                              diagram_code |-> strip(ms[k].group1, RegexSpace)]]

\* lines 90-92: hexdigest() of the SHA-256 digest of the source, as a
\* function without collisions whose values are spelled with digits and
\* lower-case letters only: every character of the source gives two
DigestChar(c) ==
    IF c \in UpperSet THEN <<"1", LowerChar(c)>>
    ELSE IF IsWord(c) THEN <<"0", c>>
    ELSE IF c = Backquote THEN <<"2", "0">>
    ELSE IF c = "\n" THEN <<"2", "1">>
    ELSE IF c = " " THEN <<"2", "2">>
    ELSE <<"2", "3">>
RECURSIVE hash_mermaid_code(_)
hash_mermaid_code(diagram_code) ==
    IF diagram_code = <<>> THEN <<>>
    ELSE DigestChar(Head(diagram_code)) \o hash_mermaid_code(Tail(diagram_code))

\* str.find: the first index at which old occurs in text, 0 if none
Find(text, old) ==
    LET hits == { i \in 1..Len(text) : HasAt(text, i, old) }
    IN  IF hits = {} THEN 0 ELSE SetMin(hits)

\* str.replace(old, new, 1)
ReplaceFirst(text, old, new) ==
    LET i == Find(text, old)
    IN  IF i = 0 THEN text
        ELSE SubSeq(text, 1, i - 1) \o new \o SubSeq(text, i + Len(old), Len(text))

\* ------------------------------------------------------------------------
\* converter/mermaid_processor.py: rendering and embedding
\* ------------------------------------------------------------------------
PDF == <<"p","d","f">>
\* line 227: output_dir, relative to base_dir
OutputDir == <<"_","a","s","s","e","t","s","/","d","i","a","g","r","a","m","s">>
\* lines 236-237
SvgPath(diagram_hash) == OutputDir \o <<"/">> \o diagram_hash \o <<".","s","v","g">>
PngPath(diagram_hash) == OutputDir \o <<"/">> \o diagram_hash \o <<".","p","n","g">>
\* line 250: the image reference of a path relative to base_dir
ImageRef(relative_path) == <<"!","[","]","(">> \o relative_path \o <<")">>

\* How one run of the Mermaid CLI ends (lines 99-113, 184-185): "ok" exits 0
\* and writes the output file; "nonzero" exits with an error; "no_output"
\* exits 0 without writing the file; "timeout" exceeds the 30 seconds
CliFailures == {"nonzero", "no_output", "timeout"}
\* The environment of one embedder call decides how the n-th CLI run of the
\* call ends: run number fail_at ends as how, every other run ends "ok"
CliOutcome(n, fail_at, how) == IF n = fail_at THEN how ELSE "ok"

\* lines 95-113 with the except clause of lines 184-185: one CLI run that is
\* to write output_path.  st: the files of output_dir, the CLI runs of this
\* call so far, and the exception that is propagating ("none": none)
run_mermaid_cli(output_path, st, fail_at, how) ==
    LET n == Len(st.invocations) + 1
        outcome == CliOutcome(n, fail_at, how)
    IN  [st EXCEPT !.invocations = Append(@, [output |-> output_path,
                                               outcome |-> outcome]),
                   !.files = IF outcome = "ok" THEN @ \cup {output_path} ELSE @,
                   !.raised = IF outcome = "ok" THEN "none" ELSE "MermaidRenderError"]

\* variant: the vector artifact is rendered again although it exists
render_mermaid_to_svg_and_png_NoCache(svg_path, png_path, st, fail_at, how) ==
    LET s1 == run_mermaid_cli(svg_path, st, fail_at, how)
    IN  IF s1.raised # "none" THEN s1
        ELSE IF png_path \notin s1.files
             THEN run_mermaid_cli(png_path, s1, fail_at, how)
             ELSE s1

\* lines 116-193, called with the executable found: the scratch file with
\* the source is written (149-156) and removed in the finally clause
\* (190-193) on every path; each artifact is rendered only if it is missing
render_mermaid_to_svg_and_png(svg_path, png_path, st, fail_at, how) ==
    LET s1 == IF svg_path \notin st.files
              THEN run_mermaid_cli(svg_path, st, fail_at, how)
              ELSE st
    IN  IF s1.raised # "none" THEN s1
        ELSE IF png_path \notin s1.files
             THEN run_mermaid_cli(png_path, s1, fail_at, how)
             ELSE s1

\* variant: the two artifacts exchanged
ImagePath_Swapped(output_format, svg_path, png_path) ==
    IF strip(lower(output_format), RegexSpace) = PDF THEN png_path ELSE svg_path

\* lines 220, 248: the artifact the document refers to
ImagePath(output_format, svg_path, png_path) ==
    IF strip(lower(output_format), RegexSpace) = PDF THEN svg_path ELSE png_path

RECURSIVE ProcessBlocks_KeepGoing(_, _, _, _, _, _)
\* variant: a block whose rendering fails is left as it is and the loop
\* goes on with the next block
ProcessBlocks_KeepGoing(blocks, k, output_format, st, fail_at, how) ==
    IF k > Len(blocks) THEN st
    ELSE LET diagram_hash == hash_mermaid_code(blocks[k].diagram_code)
             svg_path == SvgPath(diagram_hash)
             png_path == PngPath(diagram_hash)
             s1 == render_mermaid_to_svg_and_png(svg_path, png_path, st, fail_at, how)
         IN  IF s1.raised # "none"
             THEN ProcessBlocks_KeepGoing(blocks, k + 1, output_format,
                                          [s1 EXCEPT !.raised = "none"], fail_at, how)
             ELSE ProcessBlocks_KeepGoing(blocks, k + 1, output_format,
                    [s1 EXCEPT
                       !.generated_images = @ \o <<svg_path, png_path>>,
                       !.processed_content =
                           ReplaceFirst(@, blocks[k].full_match,
                                        ImageRef(ImagePath(output_format, svg_path, png_path)))],
                    fail_at, how)

RECURSIVE ProcessBlocks(_, _, _, _, _, _)
\* lines 234-251: the loop over the blocks, from block k on
ProcessBlocks(blocks, k, output_format, st, fail_at, how) ==
    IF k > Len(blocks) THEN st
    ELSE LET diagram_hash == hash_mermaid_code(blocks[k].diagram_code)
             svg_path == SvgPath(diagram_hash)
             png_path == PngPath(diagram_hash)
             s1 == render_mermaid_to_svg_and_png(svg_path, png_path, st, fail_at, how)
         IN  IF s1.raised # "none" THEN s1
             ELSE ProcessBlocks(blocks, k + 1, output_format,
                    [s1 EXCEPT
                       !.generated_images = @ \o <<svg_path, png_path>>,
                       !.processed_content =
                           ReplaceFirst(@, blocks[k].full_match,
                                        ImageRef(ImagePath(output_format, svg_path, png_path)))],
                    fail_at, how)

\* variant: the executable is looked up before the text is searched for blocks
process_mermaid_in_markdown_LookupFirst(content, output_format, mmdc, files, dir, fail_at, how) ==
    LET st0 == [raised |-> "none", processed_content |-> content,
                generated_images |-> <<>>, files |-> files, dir |-> dir,
                lookups |-> 1, invocations |-> <<>>]
    IN  IF mmdc = "None" THEN [st0 EXCEPT !.raised = "MermaidRenderError"]
        ELSE IF ~has_mermaid_diagrams(content) THEN st0
             ELSE ProcessBlocks(extract_mermaid_blocks(content), 1, output_format,
                                [st0 EXCEPT !.dir = TRUE], fail_at, how)

\* lines 196-253.  mmdc: what find_mermaid_cli returns; files, dir: the
\* files of output_dir and whether it exists.  The result carries what is
\* returned or raised and what the call did: lookups of the executable,
\* the directory and files afterwards, the CLI runs.
process_mermaid_in_markdown(content, output_format, mmdc, files, dir, fail_at, how) ==
    LET st0 == [raised |-> "none", processed_content |-> content,
                generated_images |-> <<>>, files |-> files, dir |-> dir,
                lookups |-> 0, invocations |-> <<>>]
    IN  IF ~has_mermaid_diagrams(content) THEN st0
        ELSE IF mmdc = "None"
             THEN [st0 EXCEPT !.lookups = 1, !.raised = "MermaidRenderError"]
             ELSE ProcessBlocks(extract_mermaid_blocks(content), 1, output_format,
                                [st0 EXCEPT !.lookups = 1, !.dir = TRUE],
                                fail_at, how)

\* ------------------------------------------------------------------------
\* The environment of the diagram embedder
\* ------------------------------------------------------------------------
\* Pieces of Markdown text
PlainText == <<"x">>
BlockA == BlockOpen \o <<"\n","A">> \o BlockClose
\* the source of BlockA with another spelling of the fence and blanks around
BlockA_Spaced == Fence \o <<"M","e","r","m","a","i","d"," ","\n"," ","A"," ">> \o BlockClose
BlockB == BlockOpen \o <<"\n","B">> \o BlockClose
OtherFence == Fence \o <<"p","y","\n","A">> \o BlockClose
OpenOnly == BlockOpen

RECURSIVE JoinLines(_)
\* the pieces, one per line
JoinLines(pieces) ==
    IF pieces = <<>> THEN <<>>
    ELSE Head(pieces) \o <<"\n">> \o JoinLines(Tail(pieces))

\* The document bodies the embedder is run on
Documents ==
    { JoinLines(pieces) : pieces \in
        { <<PlainText>>,
          <<OtherFence>>,
          <<PlainText, BlockB, PlainText>>,
          <<BlockA, BlockB>>,
          <<BlockA, PlainText, BlockA>>,
          <<BlockA_Spaced, BlockA>>,
          <<OpenOnly, BlockA, OtherFence>> } }

\* The spellings of the target format a caller passes
TargetFormats == {DOCX, <<" ","P","D","F">>}

\* No batch is running
BatchIdle ==
    /\ md_files = <<>>
    /\ formats_arg = <<>>
    /\ recursive = FALSE
    /\ overwrite = FALSE
    /\ disk = {}
    /\ disk0 = {}
    /\ pc = "idle"
    /\ raised = "none"
    /\ formats = <<>>
    /\ d = 0
    /\ f = 0
    /\ title = <<>>
    /\ used_output_files = {}
    /\ result = BatchResult
    /\ log = <<>>
    /\ parse_calls = <<>>

\* Artifacts that a cache root may hold from earlier runs
CachedBefore == {SvgPath(hash_mermaid_code(<<"A">>))}

\* A cache root, with or without artifacts of earlier runs, and a machine
\* with or without the Mermaid CLI
MermaidInit ==
    /\ BatchIdle
    /\ ConvertIdle
    /\ FrontmatterIdle
    /\ NamingIdle
    /\ EngineIdle
    /\ mmdc_path \in {"mmdc", "None"}
    /\ assets \in SUBSET CachedBefore
    /\ assets_dir = (assets # {})
    /\ embed = NoCall
    /\ rendered = {}

\* what a call that raises returns
Nothing == [returned |-> FALSE]

\* the number of CLI runs of a call in which every run ends "ok"
CliRuns(content, output_format) ==
    Len(process_mermaid_in_markdown(content, output_format, mmdc_path,
                                    assets, assets_dir, 0, "ok").invocations)

\* One call process_mermaid_in_markdown(content, base_dir, output_format) on
\* the cache root, lines 196-253
ProcessMermaid ==
    /\ \E content \in Documents, output_format \in TargetFormats :
       \E fail_at \in 0..CliRuns(content, output_format) :
       \E how \in IF fail_at = 0 THEN {"ok"} ELSE CliFailures :
       \E r \in {process_mermaid_in_markdown(content, output_format, mmdc_path,
                                             assets, assets_dir, fail_at, how)} :
       \E blocks \in {extract_mermaid_blocks(content)} :
         /\ embed' = [called |-> TRUE,
                      content |-> content,
                      output_format |-> output_format,
                      raised |-> r.raised,
                      result |-> IF r.raised = "none"
                                 THEN [returned |-> TRUE,
                                       processed_content |-> r.processed_content,
                                       generated_images |-> r.generated_images]
                                 ELSE Nothing,
                      lookups |-> r.lookups,
                      invocations |-> r.invocations]
         /\ assets' = r.files
         /\ assets_dir' = r.dir
         /\ rendered' = rendered \cup
              { blocks[k].diagram_code : k \in 1..(Len(r.generated_images) \div 2) }
    /\ UNCHANGED <<batch_vars, convert_vars, frontmatter_vars, naming_vars, engine_vars, mmdc_path>>

MermaidNext == ProcessMermaid

MermaidSpec == MermaidInit /\ [][MermaidNext]_vars

\* ------------------------------------------------------------------------
\* Vocabulary of the embedder properties
\* ------------------------------------------------------------------------
BlocksOf(content) == extract_mermaid_blocks(content)
ArtifactsOf(diagram_code) ==
    <<SvgPath(hash_mermaid_code(diagram_code)), PngPath(hash_mermaid_code(diagram_code))>>
Succeeded == embed.called /\ embed.raised = "none"
FailedRuns(e) == { k \in DOMAIN e.invocations : e.invocations[k].outcome # "ok" }
PrintFormats == {PDF, <<" ","P","D","F">>}

\* ------------------------------------------------------------------------
\* C17: process_mermaid_in_markdown on a text without diagram block returns
\* the text unchanged and an empty artifact list and does no filesystem or
\* external-process work: no lookup of the tool, no directory, no file, no
\* renderer run, with or without the tool installed
\* ------------------------------------------------------------------------
C17_Step ==
    (embed'.called /\ BlocksOf(embed'.content) = <<>>) =>
        /\ embed'.raised = "none"
        /\ embed'.result.returned
        /\ embed'.result.processed_content = embed'.content
        /\ embed'.result.generated_images = <<>>
        /\ embed'.lookups = 0
        /\ embed'.invocations = <<>>
        /\ assets' = assets
        /\ assets_dir' = assets_dir
C17_NoBlockNoWork == [][C17_Step]_vars

C17_Witness ==
    /\ embed.called
    /\ embed.content = JoinLines(<<OtherFence>>)
    /\ mmdc_path = "None"
    /\ ~assets_dir
    /\ embed.result.returned

\* ------------------------------------------------------------------------
\* C18: rendering is content-addressed and idempotent: a call issues no
\* renderer run for a source whose render succeeded before in the same cache
\* root; an artifact is rendered only when it is missing from disk, and at
\* most once per call; blocks with the same trimmed source get the same two
\* artifact paths
\* ------------------------------------------------------------------------
C18_Step ==
    embed'.called =>
        \A runs \in {embed'.invocations}, blocks \in {BlocksOf(embed'.content)} :
            /\ \A k \in DOMAIN runs :
                 /\ runs[k].output \notin assets
                 /\ \A j \in DOMAIN runs : j # k => runs[j].output # runs[k].output
                 /\ \A code \in rendered :
                      runs[k].output \notin Range(ArtifactsOf(code))
            /\ (\A b \in DOMAIN blocks : blocks[b].diagram_code \in rendered)
                 => runs = <<>>
            /\ embed'.raised = "none" =>
                 \A a, b \in DOMAIN blocks :
                    blocks[a].diagram_code = blocks[b].diagram_code =>
                       SubSeq(embed'.result.generated_images, 2 * a - 1, 2 * a)
                         = SubSeq(embed'.result.generated_images, 2 * b - 1, 2 * b)
C18_RenderedOnlyWhenMissing == [][C18_Step]_vars

\* a call on a text with the source B, which no earlier run had cached, is a
\* pure cache hit; and a call on two blocks that differ in spelling only
C18_Witness ==
    /\ Succeeded
    /\ embed.content = JoinLines(<<PlainText, BlockB, PlainText>>)
    /\ embed.invocations = <<>>
    /\ <<"B">> \in rendered

\* ------------------------------------------------------------------------
\* C19: the embedder fails fast: when a renderer run of block k fails
\* (timeout, non-zero exit, missing output) the call raises a render error,
\* returns nothing, and runs the renderer for no later block
\* ------------------------------------------------------------------------
C19_FailFast ==
    (embed.called /\ FailedRuns(embed) # {}) =>
        /\ embed.raised = "MermaidRenderError"
        /\ embed.result = Nothing
        /\ FailedRuns(embed) = {Len(embed.invocations)}

C19_Witness ==
    /\ embed.called
    /\ embed.content = JoinLines(<<BlockA, BlockB>>)
    /\ Len(embed.invocations) = 1
    /\ embed.invocations[1].outcome = "timeout"
    /\ embed.raised = "MermaidRenderError"

\* ------------------------------------------------------------------------
\* C20: after a successful call on a text with n blocks the rewritten text
\* has no diagram block and exactly n image references, the i-th one naming
\* the artifact of the i-th block's trimmed source, the vector artifact for
\* pdf and the raster artifact otherwise; the artifact list has the vector
\* and the raster path of every block in source order
\* ------------------------------------------------------------------------
RefOpen == <<"!","[","]","(">>
RECURSIVE ImageRefsOf(_, _)
\* the targets of the image references of a text, in text order, from pos on
ImageRefsOf(text, pos) ==
    IF pos > Len(text) THEN <<>>
    ELSE IF HasAt(text, pos, RefOpen)
         THEN LET start == pos + Len(RefOpen)
                  close == SetMin({ i \in start..(Len(text) + 1) :
                                      i = Len(text) + 1 \/ text[i] = ")" })
              IN  <<SubSeq(text, start, close - 1)>> \o ImageRefsOf(text, close + 1)
         ELSE ImageRefsOf(text, pos + 1)

RECURSIVE Flatten(_)
Flatten(pairs) == IF pairs = <<>> THEN <<>> ELSE Head(pairs) \o Flatten(Tail(pairs))

C20_RewrittenText ==
    Succeeded =>
        \A blocks \in {BlocksOf(embed.content)} \ {<<>>},
           pick \in {IF embed.output_format \in PrintFormats THEN 1 ELSE 2} :
            /\ BlocksOf(embed.result.processed_content) = <<>>
            /\ ImageRefsOf(embed.result.processed_content, 1)
                 = [i \in DOMAIN blocks |-> ArtifactsOf(blocks[i].diagram_code)[pick]]
            /\ embed.result.generated_images
                 = Flatten([i \in DOMAIN blocks |-> ArtifactsOf(blocks[i].diagram_code)])

\* two blocks with the same text, converted for pdf
C20_Witness ==
    /\ Succeeded
    /\ embed.content = JoinLines(<<BlockA, PlainText, BlockA>>)
    /\ embed.output_format \in PrintFormats
    /\ Len(embed.result.generated_images) = 4

\* ------------------------------------------------------------------------
\* converter/pandoc_wrapper.py: PandocWrapper.convert
\* ------------------------------------------------------------------------
\* What the environment does to one conversion: every step up to the named
\* one goes well.
\*   input_missing, input_not_file   the input path (converter_service 69-73)
\*   unreadable                      parse_frontmatter raises (81)
\*   output_is_directory             output_path is a directory (162)
\*   mkdir_error                     the output directory cannot be made (178)
\*   no_engine                       no PDF engine on the path (pandoc 188)
\*   launch_not_found                subprocess.run cannot start pandoc (243)
\*   nonzero                         pandoc exits with an error (243, check=True)
\*   no_output                       pandoc exits 0, no output file (251)
\*   output_vanishes                 the output file exists at line 251 and is
\*                                   gone when line 255 reads its size
\*   empty_output                    pandoc exits 0, the output file is empty
\*   ok                              pandoc exits 0 and wrote the output file
Fates == {"input_missing", "input_not_file", "unreadable", "output_is_directory",
          "mkdir_error", "no_engine", "launch_not_found", "nonzero", "no_output",
          "output_vanishes", "empty_output", "ok"}

\* variant: the size of the output file is not looked at
PandocTryBody_NoSizeCheck(fate) ==
    CASE fate = "launch_not_found" -> "FileNotFoundError"
      [] fate = "nonzero"          -> "CalledProcessError"
      [] fate = "no_output"        -> "ConversionError"
      [] OTHER                     -> "none"

\* lines 242-258: the exception the body of the try statement raises
PandocTryBody(fate) ==
    CASE fate = "launch_not_found" -> "FileNotFoundError"
      [] fate = "nonzero"          -> "CalledProcessError"
      [] fate = "no_output"        -> "ConversionError"
      [] fate = "output_vanishes"  -> "FileNotFoundError"
      [] fate = "empty_output"     -> "ConversionError"
      [] OTHER                     -> "none"

\* lines 263-270: the except clauses of the try statement
PandocExcept(exception) ==
    CASE exception = "CalledProcessError" -> "ConversionError"
      [] exception = "FileNotFoundError"  -> "PandocNotFoundError"
      [] OTHER                            -> exception

\* the output file after pandoc ran
OutputAfter(fate) ==
    CASE fate \in {"launch_not_found", "nonzero", "no_output", "output_vanishes"} -> "absent"
      [] fate = "empty_output" -> "empty"
      [] OTHER                 -> "nonempty"

\* lines 147-270.  The input file was checked by the caller; the format is
\* docx or pdf.
PandocWrapper_convert(input_file, content, output_format, fate) ==
    LET call == [called |-> TRUE, input_file |-> input_file, content |-> content,
                 output_format |-> output_format, launched |-> FALSE,
                 exit_ok |-> FALSE, output |-> "absent", raised |-> "none"]
    IN  IF lower(output_format) = PDF /\ fate = "no_engine"
        THEN [call EXCEPT !.raised = "PDFEngineNotFoundError"]
        ELSE [call EXCEPT !.launched = TRUE,
                          !.exit_ok = fate \notin {"launch_not_found", "nonzero"},
                          !.output = OutputAfter(fate),
                          !.raised = PandocExcept(PandocTryBody(fate))]

\* ------------------------------------------------------------------------
\* converter/converter_service.py: ConverterService.convert
\* ------------------------------------------------------------------------
\* mermaid_processor.py 196-200: the parameters of process_mermaid_in_markdown,
\* none of which has a default
ProcessMermaidParameters == <<"content", "base_dir", "output_format">>

\* converter_service.py 95-99: the call passes two positional arguments and
\* the keyword base_name
EmbedCall == [positional |-> 2, keywords |-> {"base_name"}]

\* Python's argument binding: every keyword names a parameter that no
\* positional argument filled, and every parameter gets a value
CallBinds(parameters, call) ==
    /\ call.positional <= Len(parameters)
    /\ call.keywords \subseteq
           { parameters[i] : i \in (call.positional + 1)..Len(parameters) }
    /\ \A i \in (call.positional + 1)..Len(parameters) : parameters[i] \in call.keywords

\* variant: the except clause lets the exception through
EmbedExcept_Reraise(exception) == exception

\* lines 113-114: except Exception logs a warning; nothing propagates
EmbedExcept(exception) == "none"

\* lines 89-119: how the embedding of the diagrams ends.
\*   no_diagrams    the body holds no mermaid block (89)
\*   not_available  mmdc is not installed (90, 115-119)
\*   TypeError      the call of line 95 does not bind
\*   embedded       the call returned
EmbedOutcome(content, mmdc) ==
    IF ~has_mermaid_diagrams(content) THEN "no_diagrams"
    ELSE IF mmdc = "None" THEN "not_available"
    ELSE IF ~CallBinds(ProcessMermaidParameters, EmbedCall) THEN "TypeError"
    ELSE "embedded"

\* lines 196-215: what the try statement around the renderer lets out
ConvertExcept(exception) ==
    CASE exception = "none"            -> [raised |-> "none", message |-> "none"]
      [] exception = "ConversionError" -> [raised |-> "ConversionError",
                                           message |-> "from renderer"]
      [] OTHER                         -> [raised |-> "ConversionError",
                                           message |-> "Unexpected error during conversion"]

\* profiles.py 41-48: Profile.__init__ gives a profile without formats the
\* list ["docx"]
Profile(default_formats) ==
    [selected |-> TRUE,
     default_formats |-> IF default_formats = <<>> THEN <<DOCX>> ELSE default_formats]

\* lines 153-157: the first format of the profile replaces the format
\* "docx" of the call
EffectiveFormat(output_format, prof) ==
    IF prof.selected /\ prof.default_formats # <<>> /\ output_format = DOCX
    THEN prof.default_formats[1]
    ELSE output_format

\* lines 66-231, without template and explicit metadata; of the profile,
\* the formats (its naming pattern is used only when output_path is None
\* and the front matter has a title, its arguments are handed to pandoc).
\* output_path is "file" for a path given by the caller, which the batch
\* names after the format of the item (batch_service.py 127-130, 191), and
\* "None" for the default next to the input file, named after the format
\* in force at line 174; output_suffix is the extension without the dot.  temp_markdown_file and mermaid_images
\* are only set after the call of line 95 returned.
ConverterService_convert(content, output_format_arg, prof, mmdc, output_path, fate) ==
    LET output_format == EffectiveFormat(output_format_arg, prof)
        start == [output_format |-> output_format_arg, output_path |-> output_path,
                  output_suffix |-> IF output_path = "file" THEN output_format_arg
                                    ELSE output_format,
                  fate |-> fate, embed |-> "not_reached",
                  processed_input_file |-> "input_file",
                  temp_markdown_file |-> "None", temp_exists |-> FALSE,
                  mermaid_images |-> <<>>, cli_invocations |-> <<>>,
                  renderer |-> NoCall, returned |-> FALSE,
                  raised |-> "none", message |-> "none"]
        outcome == EmbedOutcome(content, mmdc)
        through == IF outcome = "TypeError" THEN EmbedExcept("TypeError") ELSE "none"
        parsed == [start EXCEPT !.embed = outcome]
    IN  IF fate \in {"input_missing", "input_not_file"}
        THEN [start EXCEPT !.raised = "InvalidFileError"]
        ELSE IF fate = "unreadable"
        THEN [start EXCEPT !.raised = "FrontmatterError"]
        ELSE IF through # "none"
        THEN [parsed EXCEPT !.raised = through]
        ELSE IF output_path = "file" /\ fate = "output_is_directory"
        THEN [parsed EXCEPT !.raised = "InvalidFileError"]
        ELSE IF fate = "mkdir_error"
        THEN [parsed EXCEPT !.raised = "ConversionError",
                            !.message = "Cannot create output directory"]
        ELSE LET call == PandocWrapper_convert(parsed.processed_input_file, content,
                                               output_format, fate)
                 out == ConvertExcept(call.raised)
             IN  [parsed EXCEPT !.renderer = call,
                                !.returned = (out.raised = "none"),
                                !.raised = out.raised,
                                !.message = out.message]

\* ------------------------------------------------------------------------
\* One document converted to each requested format in turn
\* (batch_service.py 124-196 calls convert once per format)
\* ------------------------------------------------------------------------
ConvertInit ==
    /\ BatchIdle
    /\ FrontmatterIdle
    /\ NamingIdle
    /\ EngineIdle
    /\ mmdc_path \in {"None", "mmdc"}
    /\ assets = {}
    /\ assets_dir = FALSE
    /\ embed = NoCall
    /\ rendered = {}
    /\ document \in Documents
    /\ requested \in {<<DOCX>>, <<PDF>>, <<DOCX, PDF>>, <<PDF, DOCX>>}
    \* the profiles a run can select: none, a built-in one (profiles.py
    \* 87-125: none of them names formats), and profiles registered with
    \* register_profile (177-191), which takes any list of formats
    /\ profile \in {NoProfile, Profile(<<>>), Profile(<<PDF>>), Profile(<<PDF, DOCX>>)}
    /\ conversions = <<>>

Convert ==
    /\ Len(conversions) < Len(requested)
    /\ \E output_path \in {"file", "None"}, fate \in Fates :
         conversions' = Append(conversions,
             ConverterService_convert(document, requested[Len(conversions) + 1],
                                      profile, mmdc_path, output_path, fate))
    /\ UNCHANGED <<batch_vars, mermaid_vars, frontmatter_vars, naming_vars, engine_vars,
                   document, requested, profile>>

ConvertNext == Convert

ConvertSpec == ConvertInit /\ [][ConvertNext]_vars

\* ------------------------------------------------------------------------
\* Properties of ConverterService.convert and PandocWrapper.convert
\* ------------------------------------------------------------------------
Conversions == { conversions[i] : i \in DOMAIN conversions }

\* the embedding of the diagrams was attempted or wanted, and failed
EmbedFailed(c) == c.embed \in {"not_available", "TypeError"}

\* nothing is wrong with the place the output goes to
OutputLocationUsable(c) ==
    /\ ~(c.output_path = "file" /\ c.fate = "output_is_directory")
    /\ c.fate # "mkdir_error"

\* C12: a failure of the embedder (tool unavailable, or the embed call
\* raising) never ends the conversion: no exception of the embedder leaves
\* convert, and where the output location is usable the renderer is called
\* with the original input file and its unmodified content, and convert
\* returns exactly when the renderer returned, raising ConversionError
\* otherwise.
C12_EmbedFailureTolerated ==
    \A c \in Conversions :
        EmbedFailed(c) =>
            /\ c.raised \in {"none", "InvalidFileError", "ConversionError"}
            /\ c.temp_markdown_file = "None"
            /\ OutputLocationUsable(c) =>
                 /\ c.renderer.called
                 /\ c.renderer.input_file = "input_file"
                 /\ c.renderer.content = document
                 /\ c.returned <=> c.renderer.raised = "none"
                 /\ ~c.returned <=> c.raised = "ConversionError"
            /\ ~OutputLocationUsable(c) => ~c.renderer.called /\ ~c.returned

\* C12 witness: the embed call raised, and the conversion went on to the
\* renderer, once ending well and once with the renderer's error
C12_Witness ==
    /\ Len(conversions) = 2
    /\ conversions[1].embed = "TypeError"
    /\ conversions[1].returned
    /\ conversions[2].embed = "TypeError"
    /\ conversions[2].renderer.called
    /\ conversions[2].renderer.raised = "ConversionError"
    /\ conversions[2].raised = "ConversionError"

C15_StatRaceIsConversionError ==
    \A c \in Conversions :
        (c.renderer.called /\ c.renderer.launched) =>
            /\ c.fate = "output_vanishes" => c.renderer.raised = "ConversionError"
            /\ c.renderer.raised = "PandocNotFoundError" => c.fate = "launch_not_found"

\* C16: a document with one diagram block converted to docx and then to pdf
\* with mmdc installed: the renderer gets for docx the text that references
\* the PNG artifact and for pdf the text that references the SVG artifact;
\* the first conversion renders one SVG and one PNG, both are still in the
\* cache afterwards, and the second conversion runs mmdc not at all.
C16_ScenarioD ==
    ( /\ mmdc_path = "mmdc"
      /\ profile = NoProfile
      /\ requested = <<DOCX, PDF>>
      /\ Len(conversions) = 2
      /\ \A i \in 1..2 : conversions[i].renderer.called
      /\ Len(extract_mermaid_blocks(document)) = 1 )
    => \A b \in {extract_mermaid_blocks(document)[1]} :
       \A h \in {hash_mermaid_code(b.diagram_code)} :
          /\ conversions[1].renderer.content
                 = ReplaceFirst(document, b.full_match, ImageRef(PngPath(h)))
          /\ conversions[2].renderer.content
                 = ReplaceFirst(document, b.full_match, ImageRef(SvgPath(h)))
          /\ conversions[1].cli_invocations = <<SvgPath(h), PngPath(h)>>
          /\ conversions[2].cli_invocations = <<>>
          /\ {SvgPath(h), PngPath(h)} \subseteq assets

\* C30: in every converter call of a batch (the output path is given and
\* named after the format of the item) the format pandoc is run with is the
\* format of the item, and so the extension of the output path, whatever
\* profile is selected.
C30_RendererFormatIsItemFormat ==
    \A c \in Conversions :
        (c.output_path = "file" /\ c.renderer.called) =>
            /\ c.renderer.output_format = c.output_format
            /\ c.renderer.output_format = c.output_suffix

\* ------------------------------------------------------------------------
\* converter/frontmatter.py
\* ------------------------------------------------------------------------
\* U+FEFF, which decoding with utf-8 leaves in the text
BOM == "bom"
DQuote == "\""
SQuote == "'"
Delimiter == <<"-", "-", "-">>

\* the whitespace of str.strip() and of the regex class for space
StrSpace == Whitespace \cup {"\n", "\r"}

\* line 96: Path.read_text(encoding="utf-8") opens the file in text mode,
\* where "\r\n" and a lone "\r" are read as "\n"; a byte-order mark stays
RECURSIVE read_text(_)
read_text(stored) ==
    IF stored = <<>> THEN <<>>
    ELSE IF Head(stored) = "\r"
         THEN <<"\n">> \o read_text(IF Len(stored) >= 2 /\ stored[2] = "\n"
                                    THEN Tail(Tail(stored)) ELSE Tail(stored))
         ELSE <<Head(stored)>> \o read_text(Tail(stored))

\* str.split(sep) for a separator of one character
RECURSIVE split(_, _)
split(text, sep) ==
    IF \A i \in DOMAIN text : text[i] # sep THEN <<text>>
    ELSE LET i == SetMin({ j \in DOMAIN text : text[j] = sep })
         IN  <<SubSeq(text, 1, i - 1)>> \o split(SubSeq(text, i + 1, Len(text)), sep)

\* sep.join(lines)
RECURSIVE join(_, _)
join(lines, sep) ==
    IF lines = <<>> THEN <<>>
    ELSE IF Len(lines) = 1 THEN lines[1]
    ELSE lines[1] \o <<sep>> \o join(Tail(lines), sep)

\* lines 14-22: FRONTMATTER_FIELDS
Key_title == <<"t","i","t","l","e">>
Key_date == <<"d","a","t","e">>
FRONTMATTER_FIELDS ==
    { Key_title,
      <<"s","u","b","t","i","t","l","e">>,
      <<"a","u","t","h","o","r">>,
      <<"v","e","r","s","i","o","n">>,
      Key_date,
      <<"c","u","s","t","o","m","e","r">>,
      <<"p","r","o","j","e","c","t">> }

\* the last index of the run of characters of class that starts at j
\* (j - 1: no such character at j)
RECURSIVE RunEnd(_, _, _)
RunEnd(text, j, class) ==
    IF j <= Len(text) /\ text[j] \in class THEN RunEnd(text, j + 1, class) ELSE j - 1

\* line 172: re.match of identifier, optional space, colon, optional space
\* and a rest of at least one character, on a line without newline
KeyValue(line) ==
    LET key_end == IF line # <<>> /\ line[1] \in (WordSet \ DigitSet)
                   THEN RunEnd(line, 2, WordSet) ELSE 0
        colon == RunEnd(line, key_end + 1, StrSpace) + 1
        rest == RunEnd(line, colon + 1, StrSpace) + 1
    IN  IF key_end >= 1 /\ colon <= Len(line) /\ line[colon] = ":" /\ rest <= Len(line)
        THEN [matched |-> TRUE, key |-> SubSeq(line, 1, key_end),
              value |-> SubSeq(line, rest, Len(line))]
        ELSE [matched |-> FALSE]

\* lines 175-181: the value stripped, then one layer of quotes removed
Unquote(group2) ==
    LET value == strip(group2, StrSpace)
    IN  IF \/ startswith(value, <<DQuote>>) /\ endswith(value, <<DQuote>>)
           \/ startswith(value, <<SQuote>>) /\ endswith(value, <<SQuote>>)
        THEN SubSeq(value, 2, Len(value) - 1)
        ELSE value

\* lines 166-183: the loop over the lines of the block
RECURSIVE ParseLines(_, _)
ParseLines(lines, acc) ==
    IF lines = <<>> THEN acc
    ELSE LET line == strip(Head(lines), StrSpace)
             m == KeyValue(line)
             \* line 183: result[key] = value
             put == [k \in DOMAIN acc.data \cup {m.key} |->
                        IF k = m.key THEN Unquote(m.value) ELSE acc.data[k]]
         IN  ParseLines(Tail(lines),
                 IF line = <<>> \/ Head(line) = "#" \/ ~m.matched THEN acc
                 ELSE [acc EXCEPT !.data = put])

\* lines 152-185: _parse_simple_yaml
parse_simple_yaml(yaml_text) ==
    ParseLines(split(yaml_text, "\n"), [raised |-> "none", data |-> <<>>])

\* lines 250-256: the formats tried, in order; each is three directives
\* joined by one separator
DateFormats ==
    << [order |-> <<"Y", "m", "d">>, sep |-> "-"],
       [order |-> <<"d", "m", "Y">>, sep |-> "."],
       [order |-> <<"d", "m", "Y">>, sep |-> "/"],
       [order |-> <<"Y", "m", "d">>, sep |-> "/"],
       [order |-> <<"d", "m", "Y">>, sep |-> "-"] >>

AllDigits(text) == \A i \in DOMAIN text : text[i] \in DigitSet
\* int(text) of a string of digits
RECURSIVE IntOf(_)
IntOf(text) ==
    IF text = <<>> THEN 0
    ELSE 10 * IntOf(SubSeq(text, 1, Len(text) - 1))
         + (CHOOSE n \in 0..9 : DigitChars[n + 1] = text[Len(text)])

\* what datetime.strptime lets a directive match: the year is four digits,
\* the month 1-12 in one or two digits, the day 1-31 in one or two digits
\* or a space and one digit
DirectiveMatches(directive, field) ==
    CASE directive = "Y" -> Len(field) = 4 /\ AllDigits(field)
      [] directive = "m" -> Len(field) \in 1..2 /\ AllDigits(field) /\ IntOf(field) \in 1..12
      [] directive = "d" -> \/ Len(field) \in 1..2 /\ AllDigits(field) /\ IntOf(field) \in 1..31
                            \/ Len(field) = 2 /\ field[1] = " " /\ field[2] \in DigitSet \ {"0"}

DaysInMonth(year, month) ==
    IF month = 2
    THEN (IF year % 4 = 0 /\ (year % 100 # 0 \/ year % 400 = 0) THEN 29 ELSE 28)
    ELSE IF month \in {4, 6, 9, 11} THEN 30 ELSE 31

\* line 260: datetime.strptime(date_str, fmt); ok is FALSE for ValueError
strptime(date_str, fmt) ==
    LET parts == split(date_str, fmt.sep)
        at(directive) == parts[CHOOSE i \in 1..3 : fmt.order[i] = directive]
        year == IntOf(at("Y"))
        month == IntOf(at("m"))
        day == IntOf(lstrip(at("d"), {" "}))
    IN  IF /\ Len(parts) = 3
           /\ \A i \in 1..3 : DirectiveMatches(fmt.order[i], parts[i])
           /\ year >= 1
           /\ day <= DaysInMonth(year, month)
        THEN [ok |-> TRUE, year |-> year, month |-> month, day |-> day]
        ELSE [ok |-> FALSE]

Pad2(n) == IF n < 10 THEN <<"0">> \o Decimal(n) ELSE Decimal(n)

\* line 261: parsed.strftime("%Y-%m-%d"); the C library writes the year
\* without leading zeros, the month and the day with two digits
strftime(t) == Decimal(t.year) \o <<"-">> \o Pad2(t.month) \o <<"-">> \o Pad2(t.day)

\* lines 236-266: _normalize_date; found is FALSE for None
normalize_date(date_str) ==
    LET hits == { i \in DOMAIN DateFormats : strptime(date_str, DateFormats[i]).ok }
    IN  IF date_str = <<>> \/ hits = {} THEN [found |-> FALSE]
        ELSE [found |-> TRUE,
              value |-> strftime(strptime(date_str, DateFormats[SetMin(hits)]))]

\* variant: every key of the block is kept
validate_frontmatter_KeepAll(data, now) ==
    [key \in DOMAIN data |->
        IF key = Key_date
        THEN IF data[key] # <<>>
             THEN IF normalize_date(data[key]).found
                  THEN normalize_date(data[key]).value ELSE data[key]
             ELSE now
        ELSE data[key]]

\* lines 188-233: _validate_frontmatter; now is today's date as
\* datetime.now().strftime("%Y-%m-%d") gives it
validate_frontmatter(data, now) ==
    [key \in DOMAIN data \cap FRONTMATTER_FIELDS |->
        IF key = Key_date
        THEN IF data[key] # <<>>
             THEN IF normalize_date(data[key]).found
                  THEN normalize_date(data[key]).value ELSE data[key]
             ELSE now
        ELSE data[key]]

\* variant: the text is returned without surrounding whitespace
NoFrontmatter_Stripped(content) ==
    [raised |-> "none", found |-> FALSE, data |-> <<>>,
     remaining |-> strip(content, StrSpace)]

\* lines 111, 116, 128: return None, content
NoFrontmatter(content) ==
    [raised |-> "none", found |-> FALSE, data |-> <<>>, remaining |-> content]

\* lines 109-149: parse_frontmatter from the decoded text on.  found is
\* FALSE where None is returned for the metadata; data maps the fields
\* that are not None to their values.
ParseContent(content, now) ==
    LET lines == split(content, "\n")
        \* lines 118-123: the index of the first line after the first that
        \* is the closing delimiter once stripped; 0 for None
        closing == { i \in 2..Len(lines) : strip(lines[i], StrSpace) = Delimiter }
        end_idx == IF closing = {} THEN 0 ELSE SetMin(closing)
        yaml == parse_simple_yaml(join(SubSeq(lines, 2, end_idx - 1), "\n"))
    IN  IF ~startswith(content, Delimiter) THEN NoFrontmatter(content)
        ELSE IF Len(lines) < 2 THEN NoFrontmatter(content)
        ELSE IF end_idx = 0 THEN NoFrontmatter(content)
        ELSE IF yaml.raised # "none"
        THEN [raised |-> "FrontmatterError", found |-> FALSE, data |-> <<>>,
              remaining |-> <<>>]
        ELSE [raised |-> "none", found |-> TRUE,
              data |-> validate_frontmatter(yaml.data, now),
              remaining |-> join(SubSeq(lines, end_idx + 1, Len(lines)), "\n")]

\* lines 82-149: parse_frontmatter of a file that can be read
parse_frontmatter_file(stored, now) == ParseContent(read_text(stored), now)

\* ------------------------------------------------------------------------
\* One file parsed by parse_frontmatter
\* ------------------------------------------------------------------------
\* Lines of a metadata block
BlockLines ==
    { <<"t", "i", "t", "l", "e", ":", " ", "T">>,
      <<"t", "i", "t", "l", "e", ":">>,
      <<"a", "u", "t", "h", "o", "r", ":", " ", DQuote, DQuote>>,
      <<"v", "e", "r", "s", "i", "o", "n", ":", " ", DQuote, " ", " ", DQuote>>,
      <<"-", " ", "i", "t", "e", "m">>,
      <<"#", " ", "c">>,
      <<"f", "o", "o", ":", " ", "1">>,
      <<"d", "a", "t", "e", ":", " ", DQuote, DQuote>>,
      <<"d", "a", "t", "e", ":", " ", "2", "0", "2", "4", "-", "1", "-", "5">>,
      <<"d", "a", "t", "e", ":", " ", "5", ".", "1", ".", "2", "0", "2", "4">>,
      <<"d", "a", "t", "e", ":", " ", "s", "o", "o", "n">>,
      <<"d", "a", "t", "e", ":", " ", "0", "9", "9", "9", "-", "0", "1", "-", "0", "1">>,
      <<"t", "i", "t", "l", "e", " ", ":", " ", SQuote, "a", " ", "b", SQuote>>,
      <<"d", "a", "t", "e", ":", " ", "3", "1", ".", "0", "2", ".", "2", "0", "2", "4">> }

\* the most lines between the first line and the closing line
MaxBlockLines == 2

RECURSIVE Stored(_, _)
\* the lines, each followed by the line ending
Stored(lines, ending) ==
    IF lines = <<>> THEN <<>> ELSE Head(lines) \o ending \o Stored(Tail(lines), ending)

\* The files: a first line, a few block lines, a closing line (exact or
\* padded) or none, one line of body, stored with LF or CRLF line endings;
\* and the file that is the delimiter alone
Files ==
    { Stored(<<first>> \o block \o closing \o << <<"b">> >>, ending) :
        \* the delimiter, the delimiter after a byte-order mark, and lines
        \* that only begin like the delimiter or do not at all
        first \in { <<"-", "-", "-">>,
                    <<BOM, "-", "-", "-">>,
                    <<"-", "-", "-", "-">>,
                    <<"-", "-", "-", "t", "i", "t", "l", "e">>,
                    <<"x">> },
        block \in SeqsUpTo(BlockLines, MaxBlockLines),
        closing \in { <<>>, << <<"-", "-", "-">> >>, << <<" ", "-", "-", "-", " ">> >> },
        ending \in { <<"\n">>, <<"\r", "\n">> } }
    \cup {Delimiter}

FrontmatterInit ==
    /\ BatchIdle
    /\ MermaidIdle
    /\ ConvertIdle
    /\ NamingIdle
    /\ EngineIdle
    /\ file_text \in Files
    \* the day of the run
    /\ today \in { <<"2","0","2","6","-","1","1","-","0","2">>,
                   <<"2","0","2","4","-","0","2","-","2","9">> }
    /\ frontmatter = NoCall

ParseFrontmatter ==
    /\ ~frontmatter.called
    /\ \E r \in {parse_frontmatter_file(file_text, today)} :
         frontmatter' = [called |-> TRUE, content |-> read_text(file_text),
                         raised |-> r.raised, found |-> r.found, data |-> r.data,
                         remaining |-> r.remaining]
    /\ UNCHANGED <<batch_vars, mermaid_vars, convert_vars, naming_vars, engine_vars,
                   file_text, today>>

FrontmatterNext == ParseFrontmatter

FrontmatterSpec == FrontmatterInit /\ [][FrontmatterNext]_vars

\* ------------------------------------------------------------------------
\* Properties of parse_frontmatter
\* ------------------------------------------------------------------------
ContentLines == split(frontmatter.content, "\n")

\* the text begins with the three hyphens
HasOpening == startswith(frontmatter.content, Delimiter)

\* a line after the first is the three hyphens, surrounding space aside
HasClosing == \E i \in 2..Len(ContentLines) : strip(ContentLines[i], StrSpace) = Delimiter

FirstLineIsDelimiter ==
    LET first == ContentLines[1]
    IN  (IF first # <<>> /\ first[1] = BOM THEN Tail(first) ELSE first) = Delimiter

\* C22: parse_frontmatter finds a metadata block if and only if the first
\* line, after an optional byte-order mark, is exactly the three hyphens and
\* a later line is the closing delimiter; otherwise it returns None and the
\* text unchanged.
C22_BlockIffDelimiterLine ==
    frontmatter.called =>
        /\ frontmatter.raised = "none"
        /\ frontmatter.found <=> (FirstLineIsDelimiter /\ HasClosing)
        /\ ~frontmatter.found => frontmatter.remaining = frontmatter.content

\* C23: every field present in the returned metadata is a non-empty string
\* without leading or trailing whitespace (a field whose value is missing,
\* empty or blank after unquoting is None).
C23_PresentFieldsNonEmptyTrimmed ==
    (frontmatter.called /\ frontmatter.found) =>
        \A key \in DOMAIN frontmatter.data :
            /\ frontmatter.data[key] # <<>>
            /\ strip(frontmatter.data[key], StrSpace) = frontmatter.data[key]

\* the lines between the first line and the closing delimiter, stripped
BlockOf ==
    LET end_idx == SetMin({ i \in 2..Len(ContentLines) :
                              strip(ContentLines[i], StrSpace) = Delimiter })
    IN  [i \in 1..(end_idx - 2) |-> strip(ContentLines[i + 1], StrSpace)]

\* a line of the form identifier: value; a line that is neither blank, nor
\* a comment, nor of that form
IsPairLine(line) == line # <<>> /\ line[1] # "#" /\ KeyValue(line).matched
IsOtherLine(line) == line # <<>> /\ line[1] # "#" /\ ~KeyValue(line).matched

\* the last line of the block that gives the key
LastLineOf(key) ==
    BlockOf[SetMax({ i \in DOMAIN BlockOf :
                       IsPairLine(BlockOf[i]) /\ KeyValue(BlockOf[i]).key = key })]

ListItemAfterTitle ==
    \E i, j \in DOMAIN BlockOf :
        /\ i < j
        /\ IsPairLine(BlockOf[i]) /\ KeyValue(BlockOf[i]).key = Key_title
        /\ BlockOf[j][1] = "-"

\* C25: a block that holds a list-item line after a valid title line makes
\* parse_frontmatter raise FrontmatterError.
C25_MalformedRaises ==
    (frontmatter.called /\ HasOpening /\ HasClosing /\ ListItemAfterTitle) =>
        frontmatter.raised = "FrontmatterError"

\* the block has a date line; the value of its last date line, unquoted
HasDateLine ==
    \E i \in DOMAIN BlockOf : IsPairLine(BlockOf[i]) /\ KeyValue(BlockOf[i]).key = Key_date
DateValue == Unquote(KeyValue(LastLineOf(Key_date)).value)

\* YYYY-MM-DD: ten characters, hyphens at the fifth and the eighth place,
\* digits elsewhere
IsNormalForm(text) ==
    /\ Len(text) = 10
    /\ \A i \in 1..10 : IF i \in {5, 8} THEN text[i] = "-" ELSE text[i] \in DigitSet

\* C26: the date of the returned metadata is absent when the block has no
\* date key, today's date when the date is given empty, the ten-character
\* form YYYY-MM-DD when the value matches a recognized format, and the
\* value unchanged otherwise.
C26_DateRule ==
    (frontmatter.called /\ frontmatter.found) =>
        /\ ~HasDateLine => Key_date \notin DOMAIN frontmatter.data
        /\ HasDateLine =>
             /\ Key_date \in DOMAIN frontmatter.data
             /\ DateValue = <<>> => frontmatter.data[Key_date] = today
             /\ (DateValue # <<>> /\ normalize_date(DateValue).found)
                    => IsNormalForm(frontmatter.data[Key_date])
             /\ (DateValue # <<>> /\ ~normalize_date(DateValue).found)
                    => frontmatter.data[Key_date] = DateValue

\* ------------------------------------------------------------------------
\* Calls of get_output_filename (paths.py 48-83)
\* ------------------------------------------------------------------------
\* the most calls in one history
MaxNamings == 2

\* naming patterns (profiles.py 93-121 and test_paths.py 78); the calls take
\* two stems, three titles (<<>>: none) and the formats docx and pdf
NamingPatterns ==
    { NoPattern,
      <<"{title}","_","v","1",".","d","o","c","x">>,
      <<"{title}","_","A","n","g","e","b","o","t",".","d","o","c","x">>,
      <<"{title}">>,
      <<"v","1",".","2","_","{title}">> }

NamingInit ==
    /\ BatchIdle
    /\ MermaidIdle
    /\ ConvertIdle
    /\ FrontmatterIdle
    /\ EngineIdle
    /\ namings = <<>>

GetOutputFilename ==
    /\ Len(namings) < MaxNamings
    /\ \E input_stem \in { <<"t","e","s","t">>, <<"a","-","b","_","2">> },
          doc_title \in { <<>>, <<"M","y"," ","D","o","c">>, <<"!">> },
          pattern \in NamingPatterns, output_format \in {DOCX, PDF} :
         namings' = Append(namings,
             [input_stem |-> input_stem, title |-> doc_title,
              output_naming_pattern |-> pattern, output_format |-> output_format,
              filename |-> get_output_filename(input_stem, doc_title, pattern,
                                               output_format)])
    /\ UNCHANGED <<batch_vars, mermaid_vars, convert_vars, frontmatter_vars, engine_vars>>

NamingNext == GetOutputFilename

NamingSpec == NamingInit /\ [][NamingNext]_vars

\* the name with what follows its last dot, the dot included, replaced by
\* the extension, unless the name already ends with the extension
ExtensionForced(name, extension) ==
    IF endswith(name, extension) THEN name
    ELSE (IF RFind(name, ".") > 0 THEN SubSeq(name, 1, RFind(name, ".") - 1) ELSE name)
         \o extension

\* the pattern with every title placeholder replaced by the slug
Substituted(pattern, slug) ==
    LET piece(i) == IF pattern[i] = "{title}" THEN slug ELSE <<pattern[i]>>
        upto[i \in 0..Len(pattern)] == IF i = 0 THEN <<>> ELSE upto[i - 1] \o piece(i)
    IN  upto[Len(pattern)]

NoEngine == "None"

\* lines 63-78: shutil.which finds the engine on the PATH
check_pdf_engine(engine, available) == engine \in available

\* line 127
default_order == <<"xelatex", "lualatex", "pdflatex">>

\* lines 122-130: the preferred engine, when it is a non-empty string, then
\* the engines of the default order that are not in the list yet
engines_to_try(preferred_engine) ==
    LET first == IF preferred_engine \notin {NoEngine, ""}
                 THEN <<preferred_engine>> ELSE <<>>
        listed == { first[i] : i \in DOMAIN first }
    IN  first \o SelectSeq(default_order, LAMBDA engine : engine \notin listed)

\* variant: the default order is tried before the preferred engine
find_pdf_engine_DefaultFirst(preferred_engine, available) ==
    LET try == default_order \o
               (IF preferred_engine \in {NoEngine, ""} \cup {default_order[i] : i \in 1..3}
                THEN <<>> ELSE <<preferred_engine>>)
        hits == { i \in DOMAIN try : check_pdf_engine(try[i], available) }
    IN  IF hits = {}
        THEN [probes |-> try, engine |-> NoEngine, raised |-> "PDFEngineNotFoundError"]
        ELSE LET hit == CHOOSE i \in hits : \A j \in hits : i <= j
             IN  [probes |-> SubSeq(try, 1, hit), engine |-> try[hit], raised |-> "none"]

\* lines 109-145: the engines are probed in turn and the first one found is
\* returned; PDFEngineNotFoundError when the list is exhausted
find_pdf_engine(preferred_engine, available) ==
    LET try == engines_to_try(preferred_engine)
        hits == { i \in DOMAIN try : check_pdf_engine(try[i], available) }
    IN  IF hits = {}
        THEN [probes |-> try, engine |-> NoEngine, raised |-> "PDFEngineNotFoundError"]
        ELSE LET hit == CHOOSE i \in hits : \A j \in hits : i <= j
             IN  [probes |-> SubSeq(try, 1, hit), engine |-> try[hit], raised |-> "none"]

\* lines 186-206: the engine is looked for only for pdf, before the command
\* is built; the command names it only for pdf
ConvertEngine(output_format, pdf_engine, available) ==
    LET found == IF output_format = PDF
                 THEN find_pdf_engine(pdf_engine, available)
                 ELSE [probes |-> <<>>, engine |-> NoEngine, raised |-> "none"]
    IN  [called |-> TRUE, output_format |-> output_format, pdf_engine |-> pdf_engine,
         probes |-> found.probes, engine |-> found.engine, raised |-> found.raised,
         launched |-> (found.raised = "none"),
         cmd_pdf_engine |-> IF found.raised = "none" /\ output_format = PDF
                               /\ found.engine \notin {NoEngine, ""}
                            THEN found.engine ELSE NoEngine]

\* the engines a PATH can hold and the values of pdf_engine: cli.py 171-176
\* offers the three default ones, convert (line 168) takes any string
Engines == {"xelatex", "lualatex", "pdflatex", "tectonic"}

EngineInit ==
    /\ BatchIdle
    /\ MermaidIdle
    /\ ConvertIdle
    /\ FrontmatterIdle
    /\ NamingIdle
    /\ engines \in SUBSET Engines
    /\ pdf_call = NoCall

PandocConvert ==
    /\ ~pdf_call.called
    /\ \E output_format \in {DOCX, PDF}, pdf_engine \in {NoEngine, ""} \cup Engines :
         pdf_call' = ConvertEngine(output_format, pdf_engine, engines)
    /\ UNCHANGED <<batch_vars, mermaid_vars, convert_vars, frontmatter_vars,
                   naming_vars, engines>>

EngineNext == PandocConvert

EngineSpec == EngineInit /\ [][EngineNext]_vars

\* the order of the probes: the preferred engine first if one is given, then
\* xelatex, lualatex, pdflatex
ProbeOrder(preferred) ==
    IF preferred = NoEngine THEN <<"xelatex", "lualatex", "pdflatex">>
    ELSE <<preferred>> \o SelectSeq(<<"xelatex", "lualatex", "pdflatex">>,
                                    LAMBDA e : e # preferred)

\* the first engine of the order that is on the PATH, if any
FirstAvailable(order) ==
    IF \E i \in DOMAIN order : order[i] \in engines
    THEN order[CHOOSE i \in DOMAIN order :
                   /\ order[i] \in engines
                   /\ \A j \in 1..(i - 1) : order[j] \notin engines]
    ELSE NoEngine

\* C28: a conversion to pdf uses the first available engine of the probe
\* order and names it to the renderer; when none is available it fails with
\* PDFEngineNotFoundError before the renderer is started.  A conversion to
\* docx probes no engine and passes none.
C28_FirstAvailableEngine ==
    pdf_call.called =>
        IF pdf_call.output_format = PDF
        THEN LET chosen == FirstAvailable(ProbeOrder(pdf_call.pdf_engine))
             IN  IF chosen # NoEngine
                 THEN /\ pdf_call.raised = "none"
                      /\ pdf_call.launched
                      /\ pdf_call.engine = chosen
                      /\ pdf_call.cmd_pdf_engine = chosen
                 ELSE /\ pdf_call.raised = "PDFEngineNotFoundError"
                      /\ ~pdf_call.launched
        ELSE /\ pdf_call.probes = <<>>
             /\ pdf_call.cmd_pdf_engine = NoEngine
             /\ pdf_call.raised = "none"
             /\ pdf_call.launched

\* C28 witness: pdf with the preferred engine missing while two of the
\* default engines are installed: the earlier one is passed to the renderer
C28_Witness ==
    /\ pdf_call.called
    /\ pdf_call.output_format = PDF
    /\ pdf_call.pdf_engine = "tectonic"
    /\ engines = {"lualatex", "pdflatex"}
    /\ pdf_call.probes = <<"tectonic", "xelatex", "lualatex">>
    /\ pdf_call.cmd_pdf_engine = "lualatex"
    /\ pdf_call.launched

TypeOK ==
    /\ pc \in {"start", "doc", "fmt", "done", "raised"}
    /\ result.successful + result.skipped + result.failed = Len(log)

====
